---- MODULE Spec2Model ----
(***************************************************************************)
(* A model of choot (src/src/main.rs): argument parsing, the privilege     *)
(* guard, unshare, fork/wait supervision, the mount pipeline, the device   *)
(* populator and the root transition, together with the part of the        *)
(* kernel the program drives (mount tables with propagation, path          *)
(* resolution, mknod under a umask, wait statuses).                        *)
(***************************************************************************)
EXTENDS Naturals, Sequences, FiniteSets

(* ------------------------------ bounds --------------------------------- *)

\* how many writes the executed command attempts at most
MaxWrites == 1

(* --------------------------- program constants ------------------------- *)

DEFAULT_EXEC == "/bin/sh"
PATH == "PATH=/usr/sbin:/usr/bin:/sbin:/bin"

\* exit status of a Rust process whose main thread panics (expect / unwrap)
PanicExit == 101
\* clap 2.x (the API main uses: Arg::with_name, short("R")): Error::exit ends
\* the process with 1 for a usage error and with 0 after help or version
ClapUsageExit == 1
ClapHelpExit == 0

None == <<>>
Some(v) == <<v>>
unwrap_or_default(o) == IF o = None THEN "" ELSE o[1]

Procs == {"parent", "child"}
\* effective uids an invocation may have: the superuser and another user
Uids == {0, 1000}
ExitCodes == 0..255

\* the commands a caller may give after "--" (none, one word, two words in
\* either order)
ArgLists == {<<>>, <<"/bin/ls">>, <<"/bin/ls", "-l">>, <<"-l", "/bin/ls">>}

\* a command line: -h/--help/-V/--version given, ROOT given, -R given, ARG values
CmdLines ==
    [help : BOOLEAN, hasRoot : BOOLEAN, readonly : BOOLEAN, ARG : ArgLists]

\* values the invoker's SHELL and TERM may have (None: unset)
EnvVals == {None, Some("xterm")}
\* values the invoker's HOME may have; HOME stands for every variable of the
\* invoker's environment other than SHELL and TERM
HomeVals == {None, Some("/home/u")}
\* the environments an invoker may have
Environs == [SHELL : EnvVals, TERM : EnvVals, HOME : HomeVals]

\* permission bits
dev_mode == {"S_IRUSR", "S_IWUSR", "S_IRGRP", "S_IWGRP", "S_IROTH", "S_IWOTH"}
\* umasks the invoker may run the program under: 000 and 022
Umasks == {{}, {"S_IWGRP", "S_IWOTH"}}

(* ------------------------------ paths ---------------------------------- *)

\* a path is the sequence of its components below the host's "/";
\* the target directory is the single component "T"
target == <<"T">>
join(p, q) == p \o q
IsPrefix(p, q) == Len(p) <= Len(q) /\ SubSeq(q, 1, Len(p)) = p
StripPrefix(p, q) == SubSeq(q, Len(p) + 1, Len(q))

VARIABLES
    euid,        \* effective uid of the invocation
    cmdline,     \* the command line given
    umask,       \* the file mode creation mask inherited from the invoker
    environ,     \* the invoker's environment
    pc,          \* position of each process
    guard,       \* the privilege guard: "pending", "passed" or "refused"
    matches,     \* what get_matches returned (readonly, ARG), once parsed
    args,        \* the command to exec, once built
    ops,         \* per process, the privileged system calls it has issued
    failed,      \* per process, the call that returned an error (None: none)
    printed,     \* what the program has printed: stream and message
    ns,          \* new namespaces attached to the program's processes
    hostMounts,  \* mount table of the host's mount namespace
    nsMounts,    \* mount table of the program's mount namespace
    nextOrder,   \* stacking order of the next mount
    files,       \* nodes created, in creation order
    idx,         \* next entry of the device / symlink table
    cwd,         \* child's working directory
    root,        \* child's root directory
    execd,       \* argv and environment of the exec (None before)
    writes,      \* results of the executed command's file creations
    status,      \* child's termination status
    exitCode     \* exit code of the top-level process (None while it runs)

vars == <<euid, cmdline, umask, environ, pc, guard, matches, args, ops, failed, printed, ns, hostMounts,
          nsMounts, nextOrder, files, idx, cwd, root, execd, writes, status, exitCode>>

inputs == <<euid, cmdline, umask, environ>>
kernel == <<hostMounts, nsMounts, nextOrder, files>>
childfs == <<cwd, root>>

(* ------------------- the kernel: mounts and path lookup ---------------- *)

\* per-mount flags a mount keeps; the rest of a mount call's flags select the
\* operation
MntFlags == {"MS_RDONLY", "MS_NOSUID", "MS_STRICTATIME"}
TypeFlags == {"MS_SHARED", "MS_PRIVATE", "MS_SLAVE"}

HostRoot(prop) ==
    [mp |-> <<>>, fs |-> "rootfs", root |-> <<>>, flags |-> {}, data |-> None,
     prop |-> prop, order |-> 0]

\* the mount of a table that a path lies on: longest mount point, topmost
Covering(tbl, path) ==
    CHOOSE m \in tbl :
        /\ IsPrefix(m.mp, path)
        /\ \A n \in tbl : IsPrefix(n.mp, path) =>
              \/ Len(n.mp) < Len(m.mp)
              \/ Len(n.mp) = Len(m.mp) /\ n.order <= m.order

\* the filesystem and the path inside it that a path names
Resolve(tbl, path) ==
    LET m == Covering(tbl, path)
    IN  [fs |-> m.fs, path |-> m.root \o StripPrefix(m.mp, path)]

\* "." is the working directory, any other path is taken from the root directory
dot == <<".">>
slash == <<>>
Abs(p, wd, rt) == IF p = dot THEN wd ELSE rt \o p

\* mount(2) with MS_SHARED / MS_SLAVE / MS_PRIVATE: change the propagation
\* type of the mount at tgt, and with MS_REC of every mount below it
ChangeType(tbl, tgt, flags) ==
    LET top == Covering(tbl, tgt)
        hit(m) == IF "MS_REC" \in flags THEN IsPrefix(top.mp, m.mp) ELSE m = top
        to(m) == IF "MS_SHARED" \in flags THEN "shared"
                 ELSE IF "MS_PRIVATE" \in flags THEN "private"
                 ELSE IF m.prop = "shared" THEN "slave" ELSE m.prop
    IN  {IF hit(m) THEN [m EXCEPT !.prop = to(m)] ELSE m : m \in tbl}

\* a mount event under a shared mount is replayed in the peer (host) table
Propagate(host, parent, new) == IF parent.prop = "shared" THEN host \cup new ELSE host

\* mount(2), dispatched on the flags as the kernel does; yields the two mount
\* tables after the call and whether the call succeeded
KMount(spec, tbl, host, order, wd, rt) ==
    LET tgt == Abs(spec.target, wd, rt)
        flags == spec.flags
        parent == Covering(tbl, tgt)
        same == [ok |-> FALSE, ns |-> tbl, host |-> host]
    IN  IF {"MS_REMOUNT", "MS_BIND"} \subseteq flags
        THEN \* reconfigure the flags of the mount whose root tgt is
             IF parent.mp # tgt THEN same
             ELSE [ok |-> TRUE,
                   ns |-> (tbl \ {parent}) \cup
                          {[parent EXCEPT !.flags = flags \cap MntFlags]},
                   host |-> host]
        ELSE IF "MS_BIND" \in flags
        THEN LET src == Abs(spec.source[1], wd, rt)
                 from == Covering(tbl, src)
                 new == [mp |-> tgt, fs |-> from.fs,
                         root |-> from.root \o StripPrefix(from.mp, src),
                         flags |-> from.flags, data |-> None,
                         prop |-> IF parent.prop = "shared" THEN "shared" ELSE from.prop,
                         order |-> order]
             IN  [ok |-> TRUE, ns |-> tbl \cup {new},
                  host |-> Propagate(host, parent, {new})]
        ELSE IF flags \cap TypeFlags # {}
        THEN [ok |-> TRUE, ns |-> ChangeType(tbl, tgt, flags), host |-> host]
        ELSE IF "MS_MOVE" \in flags
        THEN LET src == Abs(spec.source[1], wd, rt)
                 m == Covering(tbl, src)
                 above == Covering(tbl \ {m}, src)
                 moved == {[n EXCEPT !.mp = tgt \o StripPrefix(src, n.mp),
                                     !.order = IF n = m THEN order ELSE n.order] :
                           n \in {x \in tbl : IsPrefix(src, x.mp) /\ x.order >= m.order}}
                 rest == {x \in tbl : ~(IsPrefix(src, x.mp) /\ x.order >= m.order)}
             IN  IF m.mp # src \/ src = <<>> \/ above.prop = "shared" THEN same
                 ELSE [ok |-> TRUE, ns |-> rest \cup moved,
                       host |-> Propagate(host, parent, moved)]
        ELSE LET new == [mp |-> tgt, fs |-> spec.fstype[1], root |-> <<>>,
                         flags |-> flags \cap MntFlags, data |-> spec.data,
                         prop |-> IF parent.prop = "shared" THEN "shared" ELSE "private",
                         order |-> order]
             IN  [ok |-> TRUE, ns |-> tbl \cup {new},
                  host |-> Propagate(host, parent, {new})]

\* mknod(2) / symlinkat(2) / open(O_CREAT): the node is created on the
\* filesystem the path resolves to, unless that mount is read-only or the name
\* is taken; a new node's permission bits are the requested ones less the umask
Exists(fls, at) == \E i \in 1..Len(fls) : fls[i].fs = at.fs /\ fls[i].path = at.path

KCreate(node, path, tbl, fls, mask, rt) ==
    LET abs == rt \o path
        m == Covering(tbl, abs)
        at == Resolve(tbl, abs)
    IN  IF "MS_RDONLY" \in m.flags THEN [ok |-> FALSE, errno |-> "EROFS", files |-> fls]
        ELSE IF Exists(fls, at) THEN [ok |-> FALSE, errno |-> "EEXIST", files |-> fls]
        ELSE [ok |-> TRUE, errno |-> "",
              files |-> Append(fls, [fs |-> at.fs, path |-> at.path, kind |-> node.kind,
                                     dev |-> node.dev, link |-> node.link,
                                     mode |-> IF node.kind = "lnk" THEN node.mode
                                              ELSE node.mode \ mask])]

\* the nodes of a filesystem directory, in creation order
RECURSIVE Listing(_, _, _)
Listing(fls, fs, dir) ==
    IF fls = <<>> THEN <<>>
    ELSE LET f == fls[Len(fls)]
             before == Listing(SubSeq(fls, 1, Len(fls) - 1), fs, dir)
         IN  IF f.fs = fs /\ Len(f.path) = Len(dir) + 1 /\ IsPrefix(dir, f.path)
             THEN Append(before, f) ELSE before

(* --------------------------- the program -------------------------------- *)

Call(sys, arg) == [sys |-> sys, arg |-> arg]

\* a guard that lets every user through
is_root_Always(uid) == TRUE

\* Uid::is_root
is_root(uid) == uid = 0

\* main with the namespaces unshared ahead of the privilege guard
MainSteps_UnshareFirst == <<"parse", "args", "unshare", "geteuid", "fork">>

\* the statements of main in program order, up to the fork that splits the
\* process
MainSteps == <<"parse", "geteuid", "args", "unshare", "fork">>

\* a child that populates the devices ahead of the mount pipeline
ChildSteps_DevicesFirst(readonly) ==
    <<"make_chardev", "symlink", "make_rslave", "bind_mount">>
    \o (IF readonly THEN <<"remount_readonly">> ELSE <<>>)
    \o <<"mount_proc", "mount_sys", "mount_dev",
         "chdir", "move_mount", "chroot", "execve", "running">>

\* a child that mounts proc, sysfs and the dev tmpfs ahead of the bind mount
ChildSteps_BindLate(readonly) ==
    <<"make_rslave", "mount_proc", "mount_sys", "mount_dev", "bind_mount">>
    \o (IF readonly THEN <<"remount_readonly">> ELSE <<>>)
    \o <<"make_chardev", "symlink",
         "chdir", "move_mount", "chroot", "execve", "running">>

\* a child that changes its root ahead of moving the mount
ChildSteps_ChrootFirst(readonly) ==
    <<"make_rslave", "bind_mount">>
    \o (IF readonly THEN <<"remount_readonly">> ELSE <<>>)
    \o <<"mount_proc", "mount_sys", "mount_dev", "make_chardev", "symlink",
         "chdir", "chroot", "move_mount", "execve", "running">>

\* a child that mounts no tmpfs at the target's dev
ChildSteps_NoDevMount(readonly) ==
    <<"make_rslave", "bind_mount">>
    \o (IF readonly THEN <<"remount_readonly">> ELSE <<>>)
    \o <<"mount_proc", "mount_sys", "make_chardev", "symlink",
         "chdir", "move_mount", "chroot", "execve", "running">>

\* the statements of the child after the fork, in program order: setup_mounts,
\* setup_devices, enter_chroot
ChildSteps(readonly) ==
    <<"make_rslave", "bind_mount">>
    \o (IF readonly THEN <<"remount_readonly">> ELSE <<>>)
    \o <<"mount_proc", "mount_sys", "mount_dev", "make_chardev", "symlink",
         "chdir", "move_mount", "chroot", "execve", "running">>

\* the statement after `here` in a sequence of statements
After(steps, here) == steps[(CHOOSE i \in 1..Len(steps) : steps[i] = here) + 1]
Privileged == {"unshare", "fork", "mount", "mknod", "symlink", "chdir", "chroot", "execve"}

\* a parser for which ROOT is optional
ClapParse_Optional(cl) ==
    IF cl.help THEN [kind |-> "help"]
    ELSE [kind |-> "ok", readonly |-> cl.readonly,
          ARG |-> IF cl.ARG = <<>> THEN None ELSE Some(cl.ARG)]

\* App::get_matches: help or version is shown as soon as its flag is met, a
\* missing ROOT is a usage error, otherwise the matches are returned
ClapParse(cl) ==
    IF cl.help THEN [kind |-> "help"]
    ELSE IF ~cl.hasRoot THEN [kind |-> "usage"]
    ELSE [kind |-> "ok", readonly |-> cl.readonly,
          ARG |-> IF cl.ARG = <<>> THEN None ELSE Some(cl.ARG)]

\* a command that is handed to the default shell
CommandArgs_ShellWrapped(m) == IF m.ARG = None THEN <<DEFAULT_EXEC>> ELSE <<DEFAULT_EXEC>> \o m.ARG[1]

\* values_of("ARG") ... unwrap_or_else(|| vec![DEFAULT_EXEC])
CommandArgs(m) == IF m.ARG = None THEN <<DEFAULT_EXEC>> ELSE m.ARG[1]

unshare_flags == {"CLONE_NEWNS", "CLONE_NEWPID", "CLONE_NEWIPC", "CLONE_NEWUTS"}

\* a translation that keeps only success or failure of the child
WaitExitCode_Collapsed(ws) == IF ws.kind = "Exited" /\ ws.code = 0 THEN 0 ELSE 1

\* exit status translation of the supervisor
WaitExitCode(ws) == IF ws.kind = "Exited" THEN ws.code ELSE 1

MountSpec(source, tgt, fstype, flags, data) ==
    [source |-> source, target |-> tgt, fstype |-> fstype, flags |-> flags, data |-> data]

\* a root left shared with its peers
make_rslave_Shared(tgt) == MountSpec(None, tgt, None, {"MS_REC", "MS_SHARED"}, None)

make_rslave(tgt) == MountSpec(None, tgt, None, {"MS_REC", "MS_SLAVE"}, None)
bind_mount(source, tgt) == MountSpec(Some(source), tgt, None, {"MS_BIND"}, None)
\* a remount that forgets the read-only flag
remount_readonly_NoFlag(tgt) ==
    MountSpec(Some(tgt), tgt, None, {"MS_BIND", "MS_REMOUNT"}, None)

remount_readonly(tgt) ==
    MountSpec(Some(tgt), tgt, None, {"MS_BIND", "MS_REMOUNT", "MS_RDONLY"}, None)

\* the target's own directory bound in place of a fresh filesystem
mount_special_Bind(tgt, fstype, flags, data) == bind_mount(tgt, tgt)

mount_special(tgt, fstype, flags, data) == MountSpec(Some(fstype), tgt, Some(fstype), flags, data)
move_mount(source, tgt) == MountSpec(Some(source), tgt, None, {"MS_MOVE"}, None)

make_chardev(tgt, mode, major, minor) ==
    [path |-> tgt,
     node |-> [kind |-> "chr", dev |-> <<major, minor>>, link |-> <<>>, mode |-> mode]]
LinkMode == {"S_IRUSR", "S_IWUSR", "S_IXUSR", "S_IRGRP", "S_IWGRP", "S_IXGRP",
             "S_IROTH", "S_IWOTH", "S_IXOTH"}
symlink(to, linkpath) ==
    [path |-> linkpath,
     node |-> [kind |-> "lnk", dev |-> <<>>, link |-> to, mode |-> LinkMode]]

\* the mknod calls of setup_devices, in program order
DevTable ==
    << make_chardev(join(target, <<"dev", "null">>), dev_mode, 1, 3),
       make_chardev(join(target, <<"dev", "zero">>), dev_mode, 1, 5),
       make_chardev(join(target, <<"dev", "full">>), dev_mode, 1, 7),
       make_chardev(join(target, <<"dev", "random">>), dev_mode, 1, 8),
       make_chardev(join(target, <<"dev", "urandom">>), dev_mode, 1, 9),
       make_chardev(join(target, <<"dev", "tty">>), dev_mode, 5, 0),
       make_chardev(join(target, <<"dev", "ptmx">>), dev_mode, 5, 2) >>
DevMsgs ==
    << "Failed to make /dev/null", "Failed to make /dev/zero", "Failed to make /dev/full",
       "Failed to make /dev/random", "Failed to make /dev/urandom",
       "Failed to make /dev/tty", "Failed to make /dev/ptmx" >>

\* the symlink calls of setup_devices, in program order
LinkTable ==
    << symlink(<<"proc", "self", "fd">>, join(target, <<"dev", "fd">>)),
       symlink(<<"proc", "self", "fd", "0">>, join(target, <<"dev", "stdin">>)),
       symlink(<<"proc", "self", "fd", "1">>, join(target, <<"dev", "stdout">>)),
       symlink(<<"proc", "self", "fd", "2">>, join(target, <<"dev", "stderr">>)) >>
LinkMsgs ==
    << "Failed to symlink /dev/fd", "Failed to symlink /dev/stdin",
       "Failed to symlink /dev/stdout", "Failed to symlink /dev/stderr" >>

\* an environment whose HOME is the invoker's
ExecEnv_Inherited(env) ==
    << <<"HOME=", unwrap_or_default(env.HOME)>>,
       <<"SHELL=", unwrap_or_default(env.SHELL)>>,
       <<PATH>>,
       <<"TERM=", unwrap_or_default(env.TERM)>> >>

\* the environment enter_chroot builds for the exec; an entry is the sequence
\* of the pieces format! joins
ExecEnv(env) ==
    << <<"HOME=/root">>,
       <<"SHELL=", unwrap_or_default(env.SHELL)>>,
       <<PATH>>,
       <<"TERM=", unwrap_or_default(env.TERM)>> >>

NoStatus == [kind |-> "none", code |-> 0]
Exited(n) == [kind |-> "Exited", code |-> n]
Signaled == [kind |-> "Signaled", code |-> 0]

Init ==
    /\ euid \in Uids
    /\ cmdline \in CmdLines
    /\ umask \in Umasks
    /\ environ \in {e \in Environs : e.HOME # None}
    /\ pc = [p \in Procs |-> IF p = "parent" THEN MainSteps[1] ELSE "none"]
    /\ guard = "pending"
    /\ matches = None
    /\ args = None
    /\ ops = [p \in Procs |-> <<>>]
    /\ failed = [p \in Procs |-> None]
    /\ printed = <<>>
    /\ ns = {}
    /\ \E prop \in {"shared", "private"} : hostMounts = {HostRoot(prop)}
    /\ nsMounts = hostMounts
    /\ nextOrder = 1
    /\ files = <<>>
    /\ idx = 1
    /\ cwd = <<>>
    /\ root = <<>>
    /\ execd = None
    /\ writes = {}
    /\ status = NoStatus
    /\ exitCode = None

(* ------------------------------ actions --------------------------------- *)

Goto(p, where) == pc' = [pc EXCEPT ![p] = where]
Issue(p, call) == ops' = [ops EXCEPT ![p] = Append(@, call)]
Say(fd, msg) == printed' = Append(printed, [fd |-> fd, msg |-> msg])

\* exit(code) of the top-level process
Exit(code) == Goto("parent", "exited") /\ exitCode' = Some(code)

\* an error that is reported and not acted on
Panics_Continue(p, call, msg) ==
    /\ failed' = [failed EXCEPT ![p] = Some(call)]
    /\ Say("stderr", msg)
    /\ UNCHANGED <<pc, status, exitCode>>

\* an error after which the process returns from main, with status 0
Panics_Return(p, call, msg) ==
    /\ Goto(p, "exited")
    /\ failed' = [failed EXCEPT ![p] = Some(call)]
    /\ Say("stderr", msg)
    /\ IF p = "parent"
       THEN exitCode' = Some(0) /\ status' = status
       ELSE status' = Exited(0) /\ exitCode' = exitCode

\* a panic (expect / unwrap on an Err) ends the panicking process
Panics(p, call, msg) ==
    /\ Goto(p, "exited")
    /\ failed' = [failed EXCEPT ![p] = Some(call)]
    /\ Say("stderr", msg)
    /\ IF p = "parent"
       THEN exitCode' = Some(PanicExit) /\ status' = status
       ELSE status' = Exited(PanicExit) /\ exitCode' = exitCode

\* main, lines 19-25: parse the command line
ParseArgs ==
    /\ pc["parent"] = "parse"
    /\ LET m == ClapParse(cmdline)
       IN  CASE m.kind = "help" ->
                  /\ Say("stdout", "help")
                  /\ Exit(ClapHelpExit)
                  /\ matches' = matches
             [] m.kind = "usage" ->
                  /\ Say("stderr", "usage")
                  /\ Exit(ClapUsageExit)
                  /\ matches' = matches
             [] OTHER ->
                  /\ matches' = Some(m)
                  /\ Goto("parent", After(MainSteps, "parse"))
                  /\ UNCHANGED <<printed, exitCode>>
    /\ UNCHANGED <<inputs, guard, args, ops, failed, ns, kernel, idx, childfs, execd, writes, status>>

\* main, lines 27-30: the privilege guard
CheckEuid ==
    /\ pc["parent"] = "geteuid"
    /\ IF ~is_root(euid)
       THEN Say("stderr", "Must be run as root") /\ Exit(1) /\ guard' = "refused"
       ELSE /\ Goto("parent", After(MainSteps, "geteuid"))
            /\ guard' = "passed"
            /\ UNCHANGED <<printed, exitCode>>
    /\ UNCHANGED <<inputs, matches, args, ops, failed, ns, kernel, idx, childfs, execd,
                   writes, status>>

\* main, lines 32-35: the target and the command
BuildArgs ==
    /\ pc["parent"] = "args"
    /\ args' = Some(CommandArgs(matches[1]))
    /\ Goto("parent", After(MainSteps, "args"))
    /\ UNCHANGED <<inputs, guard, matches, ops, failed, printed, ns, kernel, idx, childfs, execd,
                   writes, status, exitCode>>

\* namespaces unshared one request after the other: a later request may fail
\* when the mount namespace is already attached
UnshareNamespaces_OneByOne ==
    /\ pc["parent"] = "unshare"
    /\ Issue("parent", Call("unshare", ""))
    /\ \/ /\ ns' = ns \cup unshare_flags
          /\ nsMounts' = hostMounts
          /\ Goto("parent", After(MainSteps, "unshare"))
          /\ UNCHANGED <<failed, printed, status, exitCode>>
       \/ /\ Panics("parent", Call("unshare", ""), "Unshare failed")
          /\ \E done \in {{}, {"CLONE_NEWNS"}} : ns' = ns \cup done
          /\ nsMounts' = hostMounts
    /\ UNCHANGED <<inputs, guard, matches, args, hostMounts, nextOrder, files, idx, childfs, execd,
                   writes>>

\* unshare_namespaces: one unshare call for the four namespaces; the new mount
\* namespace starts as a copy of the caller's
UnshareNamespaces ==
    /\ pc["parent"] = "unshare"
    /\ Issue("parent", Call("unshare", ""))
    /\ \/ /\ ns' = ns \cup unshare_flags
          /\ nsMounts' = hostMounts
          /\ Goto("parent", After(MainSteps, "unshare"))
          /\ UNCHANGED <<failed, printed, status, exitCode>>
       \/ /\ Panics("parent", Call("unshare", ""), "Unshare failed")
          /\ UNCHANGED <<ns, nsMounts>>
    /\ UNCHANGED <<inputs, guard, matches, args, hostMounts, nextOrder, files, idx, childfs, execd,
                   writes>>

\* fork_and_supervise, line 55: fork; the child goes on with the pipeline
Fork ==
    /\ pc["parent"] = "fork"
    /\ Issue("parent", Call("fork", ""))
    /\ \/ /\ pc' = [pc EXCEPT !["parent"] = "wait",
                               !["child"] = ChildSteps(matches[1].readonly)[1]]
          /\ UNCHANGED <<failed, printed, status, exitCode>>
       \/ Panics("parent", Call("fork", ""), "Fork failed")
    /\ UNCHANGED <<inputs, guard, matches, args, ns, kernel, idx, childfs, execd, writes>>

\* a supervisor that waits again when its wait fails
Wait_Retry ==
    /\ pc["parent"] = "wait"
    /\ Issue("parent", Call("wait", ""))
    /\ \/ /\ status.kind # "none"
          /\ Exit(WaitExitCode(status))
          /\ UNCHANGED <<failed, printed, status>>
       \/ /\ Say("stderr", "Wait failed")
          /\ UNCHANGED <<pc, failed, status, exitCode>>
    /\ UNCHANGED <<inputs, guard, matches, args, ns, kernel, idx, childfs, execd, writes>>

\* a supervisor that treats a failed wait like a child killed by a signal
Wait_Fallback ==
    /\ pc["parent"] = "wait"
    /\ Issue("parent", Call("wait", ""))
    /\ \/ /\ status.kind # "none"
          /\ Exit(WaitExitCode(status))
          /\ UNCHANGED <<failed, printed, status>>
       \/ /\ Exit(1)
          /\ failed' = [failed EXCEPT !["parent"] = Some(Call("wait", ""))]
          /\ UNCHANGED <<printed, status>>
    /\ UNCHANGED <<inputs, guard, matches, args, ns, kernel, idx, childfs, execd, writes>>

\* fork_and_supervise, lines 58-61: wait returns the terminated child's status
\* and the supervisor exits with its translation, or wait fails
Wait ==
    /\ pc["parent"] = "wait"
    /\ Issue("parent", Call("wait", ""))
    /\ \/ /\ status.kind # "none"
          /\ Exit(WaitExitCode(status))
          /\ UNCHANGED <<failed, printed, status>>
       \/ Panics("parent", Call("wait", ""), "Wait failed")
    /\ UNCHANGED <<inputs, guard, matches, args, ns, kernel, idx, childfs, execd, writes>>

\* a mount call of the child: the kernel performs it or it fails, and a failure
\* is a panic with the step's message
MountStep(here, name, spec, msg) ==
    /\ pc["child"] = here
    /\ Issue("child", Call("mount", name))
    /\ \E env_ok \in BOOLEAN :
          LET r == KMount(spec, nsMounts, hostMounts, nextOrder, cwd, root)
          IN  IF env_ok /\ r.ok
              THEN /\ nsMounts' = r.ns
                   /\ hostMounts' = IF "CLONE_NEWNS" \in ns THEN r.host ELSE r.ns
                   /\ nextOrder' = nextOrder + 1
                   /\ Goto("child", After(ChildSteps(matches[1].readonly), here))
                   /\ UNCHANGED <<failed, printed, status, exitCode>>
              ELSE /\ Panics("child", Call("mount", name), msg)
                   /\ UNCHANGED <<hostMounts, nsMounts, nextOrder>>
    /\ UNCHANGED <<inputs, guard, matches, args, ns, files, idx, root, execd, writes>>

\* setup_mounts, line 71
MakeRslave ==
    /\ MountStep("make_rslave", "make_rslave", make_rslave(slash),
                 "Failed to mark root rslave")
    /\ cwd' = cwd

\* setup_mounts, lines 72-74
BindMount ==
    /\ MountStep("bind_mount", "bind_mount", bind_mount(target, target),
                 "Failed to bind-mount root")
    /\ cwd' = cwd

\* setup_mounts, line 75
RemountReadonly ==
    /\ MountStep("remount_readonly", "remount_readonly", remount_readonly(target),
                 "Failed to remount readonly")
    /\ cwd' = cwd

\* setup_mounts, line 78
MountProc ==
    /\ MountStep("mount_proc", "proc",
                 mount_special(join(target, <<"proc">>), "proc", {}, None),
                 "Failed to mount proc")
    /\ cwd' = cwd

\* setup_mounts, line 79
MountSys ==
    /\ MountStep("mount_sys", "sysfs",
                 mount_special(join(target, <<"sys">>), "sysfs", {}, None),
                 "Failed to mount sysfs")
    /\ cwd' = cwd

\* setup_mounts, line 80
MountDev ==
    /\ MountStep("mount_dev", "tmpfs",
                 mount_special(join(target, <<"dev">>), "tmpfs",
                               {"MS_NOSUID", "MS_STRICTATIME"}, Some("mode=755")),
                 "Failed to mount dev tmpfs")
    /\ cwd' = cwd

\* a node creation of the child from a table: entry idx of tbl, then the next
\* entry or, after the last, the statement that follows
CreateStep(here, sys, tbl, msgs) ==
    /\ pc["child"] = here
    /\ Issue("child", Call(sys, tbl[idx].path[Len(tbl[idx].path)]))
    /\ \E env_ok \in BOOLEAN :
          LET r == KCreate(tbl[idx].node, tbl[idx].path, nsMounts, files, umask, root)
          IN  IF env_ok /\ r.ok
              THEN /\ files' = r.files
                   /\ IF idx < Len(tbl)
                      THEN idx' = idx + 1 /\ pc' = pc
                      ELSE /\ idx' = 1
                           /\ Goto("child", After(ChildSteps(matches[1].readonly), here))
                   /\ UNCHANGED <<failed, printed, status, exitCode>>
              ELSE /\ Panics("child", Call(sys, tbl[idx].path[Len(tbl[idx].path)]), msgs[idx])
                   /\ UNCHANGED <<files, idx>>
    /\ UNCHANGED <<inputs, guard, matches, args, ns, hostMounts, nsMounts, nextOrder, childfs,
                   execd, writes>>

\* setup_devices, lines 87-94
MakeChardev ==
    /\ idx \in 1..Len(DevTable)
    /\ CreateStep("make_chardev", "mknod", DevTable, DevMsgs)

\* setup_devices, lines 96-99
Symlink ==
    /\ idx \in 1..Len(LinkTable)
    /\ CreateStep("symlink", "symlink", LinkTable, LinkMsgs)

\* enter_chroot, line 106
Chdir ==
    /\ pc["child"] = "chdir"
    /\ Issue("child", Call("chdir", ""))
    /\ \/ /\ cwd' = root \o target
          /\ Goto("child", After(ChildSteps(matches[1].readonly), "chdir"))
          /\ UNCHANGED <<failed, printed, status, exitCode>>
       \/ /\ Panics("child", Call("chdir", ""), "Failed to chdir to target")
          /\ cwd' = cwd
    /\ UNCHANGED <<inputs, guard, matches, args, ns, kernel, idx, root, execd, writes>>

\* enter_chroot, line 107: the working directory stays in the moved mount
MoveMount ==
    /\ MountStep("move_mount", "move_mount", move_mount(dot, slash),
                 "Failed to move root")
    /\ cwd' = IF failed'["child"] = None THEN Abs(slash, cwd, root) ELSE cwd

\* enter_chroot, line 108
Chroot ==
    /\ pc["child"] = "chroot"
    /\ Issue("child", Call("chroot", ""))
    /\ \/ /\ root' = Abs(dot, cwd, root)
          /\ Goto("child", After(ChildSteps(matches[1].readonly), "chroot"))
          /\ UNCHANGED <<failed, printed, status, exitCode>>
       \/ /\ Panics("child", Call("chroot", ""), "Failed to chroot to target")
          /\ root' = root
    /\ UNCHANGED <<inputs, guard, matches, args, ns, kernel, idx, cwd, execd, writes>>

\* enter_chroot, lines 110-116: the process image is replaced, or execve fails
\* and unwrap panics
Execve ==
    /\ pc["child"] = "execve"
    /\ Issue("child", Call("execve", ""))
    /\ \/ /\ execd' = Some([path |-> args[1][1], argv |-> args[1], env |-> ExecEnv(environ)])
          /\ Goto("child", After(ChildSteps(matches[1].readonly), "execve"))
          /\ UNCHANGED <<failed, printed, status, exitCode>>
       \/ /\ Panics("child", Call("execve", ""), "execve")
          /\ execd' = execd
    /\ UNCHANGED <<inputs, guard, matches, args, ns, kernel, idx, childfs, writes>>

(* --------------- the executed command and the environment --------------- *)

\* top-level directories of the new root the command tries to write under
WriteDirs == {"tmp", "proc", "sys", "dev"}
\* filesystems whose entries are the kernel's, not files a caller creates
PseudoFs == {"proc", "sysfs"}
FileMode == {"S_IRUSR", "S_IWUSR", "S_IRGRP", "S_IROTH"}

\* the executed command writes to <d>/f under its root: refused on a read-only
\* mount; otherwise the file is there afterwards
CmdWrite ==
    /\ pc["child"] = "running"
    /\ Cardinality(writes) < MaxWrites
    /\ \E d \in WriteDirs :
          LET r == KCreate([kind |-> "reg", dev |-> <<>>, link |-> <<>>, mode |-> FileMode],
                           <<d, "f">>, nsMounts, files, umask, root)
              fs == Resolve(nsMounts, root \o <<d, "f">>).fs
          IN  /\ writes' = writes \cup
                     {[path |-> <<d, "f">>,
                       result |-> IF r.errno = "EROFS" THEN "EROFS" ELSE "ok"]}
              /\ files' = IF fs \in PseudoFs THEN files ELSE r.files
    /\ UNCHANGED <<inputs, pc, guard, matches, args, ops, failed, printed, ns, hostMounts, nsMounts,
                   nextOrder, idx, childfs, execd, status, exitCode>>

\* the executed command exits with code n
CmdExit ==
    /\ pc["child"] = "running"
    /\ \E n \in ExitCodes : status' = Exited(n)
    /\ Goto("child", "exited")
    /\ UNCHANGED <<inputs, guard, matches, args, ops, failed, printed, ns, kernel, idx, childfs,
                   execd, writes, exitCode>>

\* a signal kills the child, during the pipeline or while the command runs
ChildKilled ==
    /\ pc["child"] \notin {"none", "exited"}
    /\ status' = Signaled
    /\ Goto("child", "exited")
    /\ UNCHANGED <<inputs, guard, matches, args, ops, failed, printed, ns, kernel, idx, childfs,
                   execd, writes, exitCode>>

Next ==
    \/ ParseArgs
    \/ CheckEuid
    \/ BuildArgs
    \/ UnshareNamespaces
    \/ Fork
    \/ Wait
    \/ MakeRslave
    \/ BindMount
    \/ RemountReadonly
    \/ MountProc
    \/ MountSys
    \/ MountDev
    \/ MakeChardev
    \/ Symlink
    \/ Chdir
    \/ MoveMount
    \/ Chroot
    \/ Execve
    \/ CmdWrite
    \/ CmdExit
    \/ ChildKilled

Spec == Init /\ [][Next]_vars

(* ------------------------------ properties ------------------------------ *)

\* the privileged calls a process has issued
PrivCalls(p) == {i \in 1..Len(ops[p]) : ops[p][i].sys \in Privileged}
NoPrivilegedOps == \A p \in Procs : PrivCalls(p) = {}

\* nothing was created and no mount table differs from the host's initial one
NoFsMutation ==
    /\ files = <<>>
    /\ nsMounts = hostMounts
    /\ Cardinality(hostMounts) = 1
    /\ \A m \in hostMounts : m.order = 0 /\ m.mp = <<>> /\ m.flags = {}

UsagePrinted == printed = <<[fd |-> "stderr", msg |-> "usage"]>>

C2_Original ==
    (euid # 0 /\ pc["parent"] = "exited") => (exitCode = Some(1) /\ NoFsMutation)

\* C2 as amended: a non-root invocation mutates nothing and issues no privileged
\* call, and it ends at the argument parser or at the guard; its exit code is 1
\* unless the arguments ask for help or version, which exits with 0 before the
\* guard is reached.
C2_NonRoot ==
    euid # 0 =>
        /\ NoFsMutation
        /\ NoPrivilegedOps
        /\ pc["parent"] \in {"parse", "geteuid", "exited"}
        /\ pc["parent"] = "exited" => exitCode = Some(IF cmdline.help THEN 0 ELSE 1)

C2_Witness ==
    /\ euid = 1000 /\ cmdline.hasRoot /\ ~cmdline.help
    /\ guard = "refused" /\ exitCode = Some(1)

\* C3: every unshare, fork, mount, mknod, symlink, chdir, chroot and exec is
\* issued after the effective-uid check has passed, and a non-root run issues
\* none of them.
C3_GuardFirst ==
    /\ ~NoPrivilegedOps => guard = "passed"
    /\ euid # 0 => NoPrivilegedOps

C3_Witness == guard = "passed" /\ execd # None /\ PrivCalls("child") # {}

RslaveDone ==
    /\ \E i \in 1..Len(ops["child"]) : ops["child"][i] = Call("mount", "make_rslave")
    /\ failed["child"] # Some(Call("mount", "make_rslave"))

\* C5: once the make-root-slave step has run, no step leaves a trace in the
\* host namespace's mount table: the table stays as it is across every later
\* mount, remount and move, for both readonly settings.
C5_MountIsolation == [][RslaveDone => hostMounts' = hostMounts]_vars

C5_Witness ==
    /\ RslaveDone /\ pc["child"] = "running" /\ matches[1].readonly
    /\ Cardinality(nsMounts) = 5
    /\ hostMounts = {HostRoot("shared")}

\* a file the host's mount view shows at a path
HostSees(path) == Exists(files, Resolve(hostMounts, path))

\* C6 as stated: a file the command creates under /tmp (readonly unset) does
\* not appear under <target>/tmp in the host's view.
C6_Original ==
    \A w \in writes :
        (w.path = <<"tmp", "f">> /\ w.result = "ok") => ~HostSees(join(target, w.path))

\* C6 as amended: a file the command creates under /dev, on the tmpfs mounted
\* in the new namespace, does not appear under <target>/dev in the host's view;
\* a file it creates under /tmp (readonly unset) lies on the target's own
\* filesystem, reached through the bind mount, and does appear under
\* <target>/tmp in the host's view.
C6_HostView ==
    \A w \in writes :
        w.result = "ok" =>
            /\ w.path[1] = "dev" => ~HostSees(join(target, w.path))
            /\ w.path[1] = "tmp" => HostSees(join(target, w.path))

C6_Witness ==
    /\ [path |-> <<"dev", "f">>, result |-> "ok"] \in writes
    /\ hostMounts = {HostRoot("shared")}
    /\ ~HostSees(<<"T", "dev", "f">>)

\* C7: with readonly set, after a successful run every write under the new root
\* fails with EROFS unless it is under /proc, /sys or /dev, where it is not
\* refused; with readonly unset no mount carries the read-only flag and no
\* write is refused.
C7_Readonly ==
    /\ (execd # None /\ matches[1].readonly) =>
          \A w \in writes :
              w.result = IF w.path[1] \in {"proc", "sys", "dev"} THEN "ok" ELSE "EROFS"
    /\ (matches # None /\ ~matches[1].readonly) =>
          /\ \A m \in nsMounts \cup hostMounts : "MS_RDONLY" \notin m.flags
          /\ \A w \in writes : w.result = "ok"

C7_Witness ==
    /\ execd # None /\ matches[1].readonly
    /\ [path |-> <<"tmp", "f">>, result |-> "EROFS"] \in writes

RwAll == {"S_IRUSR", "S_IWUSR", "S_IRGRP", "S_IWGRP", "S_IROTH", "S_IWOTH"}
Chr(name, major, minor) ==
    [fs |-> "tmpfs", path |-> <<name>>, kind |-> "chr", dev |-> <<major, minor>>,
     link |-> <<>>, mode |-> RwAll]
Lnk(name, to) ==
    [fs |-> "tmpfs", path |-> <<name>>, kind |-> "lnk", dev |-> <<>>, link |-> to,
     mode |-> LinkMode]

\* C8: in every run that reaches the exec, the dev directory of the target
\* holds exactly the seven character nodes, each rw for owner, group and other,
\* and the four symlinks, created once each and in this order.
C8_DeviceTable ==
    pc["child"] = "execve" =>
        Listing(files, Resolve(nsMounts, root \o <<"dev">>).fs, <<>>) =
            << Chr("null", 1, 3), Chr("zero", 1, 5), Chr("full", 1, 7),
               Chr("random", 1, 8), Chr("urandom", 1, 9), Chr("tty", 5, 0),
               Chr("ptmx", 5, 2),
               Lnk("fd", <<"proc", "self", "fd">>),
               Lnk("stdin", <<"proc", "self", "fd", "0">>),
               Lnk("stdout", <<"proc", "self", "fd", "1">>),
               Lnk("stderr", <<"proc", "self", "fd", "2">>) >>

WaitFailed == failed["parent"] = Some(Call("wait", ""))

PipelineCalls(readonly) ==
    << Call("mount", "make_rslave"), Call("mount", "bind_mount") >>
    \o (IF readonly THEN << Call("mount", "remount_readonly") >> ELSE <<>>)
    \o << Call("mount", "proc"), Call("mount", "sysfs"), Call("mount", "tmpfs"),
          Call("mknod", "null"), Call("mknod", "zero"), Call("mknod", "full"),
          Call("mknod", "random"), Call("mknod", "urandom"), Call("mknod", "tty"),
          Call("mknod", "ptmx"),
          Call("symlink", "fd"), Call("symlink", "stdin"), Call("symlink", "stdout"),
          Call("symlink", "stderr"),
          Call("chdir", ""), Call("mount", "move_mount"), Call("chroot", ""),
          Call("execve", "") >>

\* C10: the command is exec'd only after unshare, fork and every step of the
\* pipeline has been issued once, in order, and has succeeded; a process whose
\* step fails has ended, with the failed step as its last one; no step is issued
\* twice.
C10_FailFast ==
    /\ execd # None =>
          /\ failed["child"] = None
          /\ SubSeq(ops["parent"], 1, 2) = << Call("unshare", ""), Call("fork", "") >>
          /\ ops["child"] = PipelineCalls(matches[1].readonly)
          /\ ns = unshare_flags
          /\ {"proc", "sysfs", "tmpfs"} \subseteq {m.fs : m \in nsMounts}
          /\ Len(files) >= Len(DevTable) + Len(LinkTable)
    /\ \A p \in Procs :
          failed[p] # None =>
              /\ pc[p] = "exited"
              /\ ops[p] # <<>>
              /\ ops[p][Len(ops[p])] = failed[p][1]
    /\ \A p \in Procs : Cardinality({ops[p][i] : i \in 1..Len(ops[p])}) = Len(ops[p])

C10_Witness ==
    /\ failed["child"] = Some(Call("mknod", "full"))
    /\ pc["child"] = "exited" /\ execd = None
    /\ Len(ops["child"]) = 8

Component(call) ==
    IF call.sys = "mount" /\ call.arg # "move_mount" THEN 4
    ELSE IF call.sys \in {"mknod", "symlink"} THEN 5
    ELSE 6
\* how many calls the components before component c issue when they run to
\* their end
CallsBefore(c, readonly) ==
    IF c = 4 THEN 0
    ELSE IF c = 5 THEN (IF readonly THEN 6 ELSE 5)
    ELSE (IF readonly THEN 6 ELSE 5) + 11
ForkFailed == failed["parent"] = Some(Call("fork", ""))
\* the call a process issues in a step
NewCall(p) == ops'[p][Len(ops'[p])]
Issues(p) == Len(ops'[p]) > Len(ops[p])
LastComponent == IF ops["child"] = <<>> THEN 3 ELSE Component(ops["child"][Len(ops["child"])])

\* C12: the privilege check, the unshare, the fork, and in the child the mount
\* pipeline, the device population and the root transition run in this order,
\* each begun only when the one before it has run to its end without a failure;
\* when the fork fails the program has ended and no mount was ever issued.
C12_StrictSequence ==
    /\ [][/\ Issues("parent") =>
               /\ guard = "passed"
               /\ failed["parent"] = None
               /\ ops'["parent"] =
                     SubSeq(<< Call("unshare", ""), Call("fork", ""), Call("wait", "") >>,
                            1, Len(ops["parent"]) + 1)
               /\ NewCall("parent").sys = "fork" => ns = unshare_flags
          /\ Issues("child") =>
               /\ SubSeq(ops["parent"], 1, 2) = << Call("unshare", ""), Call("fork", "") >>
               /\ ~ForkFailed
               /\ failed["child"] = None
               /\ Component(NewCall("child")) >= LastComponent
               /\ Component(NewCall("child")) > LastComponent =>
                     Len(ops["child"]) =
                         CallsBefore(Component(NewCall("child")), matches[1].readonly)
         ]_vars
    /\ [](ForkFailed =>
            /\ pc = [p \in Procs |-> IF p = "parent" THEN "exited" ELSE "none"]
            /\ exitCode # None
            /\ \A p \in Procs : \A i \in 1..Len(ops[p]) : ops[p][i].sys # "mount"
            /\ NoFsMutation)

C12_Witness ==
    /\ ForkFailed /\ ns = unshare_flags /\ guard = "passed"
    /\ pc["parent"] = "exited" /\ exitCode = Some(101)
    /\ ops = [p \in Procs |-> IF p = "parent" THEN << Call("unshare", ""), Call("fork", "") >>
                                                  ELSE <<>>]

\* the mount calls of setup_mounts, in order
MountCalls(readonly) ==
    << Call("mount", "make_rslave"), Call("mount", "bind_mount") >>
    \o (IF readonly THEN << Call("mount", "remount_readonly") >> ELSE <<>>)
    \o << Call("mount", "proc"), Call("mount", "sysfs"), Call("mount", "tmpfs") >>
Succeeds(p) == Issues(p) /\ failed'[p] = None
Did(call) ==
    /\ \E i \in 1..Len(ops["child"]) : ops["child"][i] = call
    /\ failed["child"] # Some(call)
\* the step adds one mount to the namespace's table: at mp, of filesystem fs,
\* with these flags and this data
Mounts(mp, fs, flags, data) ==
    /\ nsMounts \subseteq nsMounts'
    /\ Cardinality(nsMounts' \ nsMounts) = 1
    /\ \A m \in nsMounts' \ nsMounts :
          m.mp = mp /\ m.fs = fs /\ m.flags = flags /\ m.data = data
BindAt(tbl) == {m \in tbl : m.mp = <<"T">> /\ m.fs = "rootfs" /\ m.root = <<"T">>}

\* C13: the child's mount calls are make-root-slave on /, the bind mount of the
\* target onto itself, the read-only bind remount of the target exactly when
\* readonly is set, proc at <target>/proc, sysfs at <target>/sys and a tmpfs
\* (nosuid, strictatime, mode=755) at <target>/dev, in this order; proc, sysfs
\* and the dev tmpfs are mounted only once the bind mount has succeeded, and a
\* node or symlink exists only once the dev tmpfs has been mounted.
C13_MountOrder ==
    /\ [][(Issues("child") /\ Component(NewCall("child")) = 4) =>
            LET c == NewCall("child")
                n == Len(ops["child"]) + 1
                readonly == matches[1].readonly
            IN  /\ n <= Len(MountCalls(readonly))
                /\ c = MountCalls(readonly)[n]
                /\ Succeeds("child") =>
                      CASE c.arg = "make_rslave" ->
                              nsMounts' = {[m EXCEPT !.prop = IF @ = "shared" THEN "slave" ELSE @] :
                                           m \in nsMounts}
                        [] c.arg = "bind_mount" ->
                              /\ Mounts(<<"T">>, "rootfs", {}, None)
                              /\ BindAt(nsMounts') # {}
                        [] c.arg = "remount_readonly" ->
                              /\ readonly
                              /\ nsMounts' \ BindAt(nsMounts') = nsMounts \ BindAt(nsMounts)
                              /\ \A m \in BindAt(nsMounts') : m.flags = {"MS_RDONLY"}
                        [] c.arg = "proc" ->
                              Mounts(<<"T", "proc">>, "proc", {}, None)
                        [] c.arg = "sysfs" ->
                              Mounts(<<"T", "sys">>, "sysfs", {}, None)
                        [] c.arg = "tmpfs" ->
                              Mounts(<<"T", "dev">>, "tmpfs", {"MS_NOSUID", "MS_STRICTATIME"},
                                     Some("mode=755"))
         ]_vars
    /\ []((\E m \in nsMounts : m.fs \in {"proc", "sysfs", "tmpfs"}) =>
              Did(Call("mount", "bind_mount")))
    /\ [](files # <<>> =>
              /\ Did(Call("mount", "tmpfs"))
              /\ files[1].fs = "tmpfs")
    /\ []((matches # None /\ Did(Call("mount", "proc"))) =>
              (matches[1].readonly <=> Did(Call("mount", "remount_readonly"))))

C13_Witness ==
    /\ matches # None /\ matches[1].readonly
    /\ pc["child"] = "make_chardev" /\ files = <<>>
    /\ ops["child"] = MountCalls(TRUE)
    /\ \E m \in nsMounts :
          /\ m.mp = <<"T", "dev">> /\ m.fs = "tmpfs"
          /\ m.flags = {"MS_NOSUID", "MS_STRICTATIME"} /\ m.data = Some("mode=755")
    /\ \A m \in BindAt(nsMounts) : m.flags = {"MS_RDONLY"}

\* the calls of enter_chroot, in order
TransitionCalls ==
    << Call("chdir", ""), Call("mount", "move_mount"), Call("chroot", ""), Call("execve", "") >>
\* the mount a directory of the child lies on is the target's bind mount
OnTarget(dir) == Covering(nsMounts, dir) \in {m \in nsMounts : m.fs = "rootfs" /\ m.root = <<"T">>}

\* C14: once the eleven entries of the device population exist, the child
\* calls chdir(target), moves the mount at "." onto /, calls chroot(".") and
\* execs the command, in this order and each only when the one before it has
\* succeeded; the command is exec'd with the target's mount as its root.
C14_RootTransition ==
    /\ [][(Issues("child") /\ Component(NewCall("child")) = 6) =>
            LET c == NewCall("child")
                n == Len(ops["child"]) - CallsBefore(6, matches[1].readonly) + 1
            IN  /\ n \in 1..Len(TransitionCalls)
                /\ c = TransitionCalls[n]
                /\ failed["child"] = None
                /\ Len(files) = Len(DevTable) + Len(LinkTable)
                /\ Succeeds("child") =>
                      CASE c.sys = "chdir" -> cwd' = <<"T">> /\ root' = <<>>
                        [] c.sys = "mount" ->
                              /\ cwd' = <<>> /\ root' = <<>>
                              /\ OnTarget(<<"T">>)
                              /\ OnTarget(<<>>)'
                              /\ Cardinality(nsMounts') = Cardinality(nsMounts)
                        [] c.sys = "chroot" -> root' = cwd /\ cwd' = cwd /\ OnTarget(root)'
                        [] c.sys = "execve" -> execd' # None /\ OnTarget(root)
         ]_vars
    /\ []((\E i \in 1..Len(ops["child"]) : ops["child"][i].sys = "chroot") =>
              Did(Call("mount", "move_mount")))
    /\ [](execd # None => (Did(Call("chroot", "")) /\ Did(Call("mount", "move_mount"))
                             /\ Did(Call("chdir", ""))))

C14_Witness ==
    /\ pc["child"] = "running" /\ execd # None
    /\ cwd = <<>> /\ root = <<>> /\ OnTarget(root)
    /\ SubSeq(ops["child"], Len(ops["child"]) - 3, Len(ops["child"])) = TransitionCalls

ParentCalls == {"unshare", "fork", "wait"}
ChildCalls == {"mount", "mknod", "symlink", "chdir", "chroot", "execve"}
Count(p, sys) == Cardinality({i \in 1..Len(ops[p]) : ops[p][i].sys = sys})

\* C15: the program forks at most once and the child exists only through that
\* fork, so it has at most two processes; the parent issues only unshare, fork
\* and one wait, it ends in the step its wait returns or fails, and after a
\* fork it ends in no other way; mount, mknod, symlink, chdir, chroot and exec
\* are issued by the child, which issues nothing else.
C15_ProcessRoles ==
    /\ [][/\ Issues("parent") =>
               /\ NewCall("parent").sys \in ParentCalls
               /\ Count("parent", NewCall("parent").sys) = 0
               /\ NewCall("parent").sys = "fork" =>
                     /\ pc["child"] = "none"
                     /\ pc'["child"] # "none" <=> failed'["parent"] = None
               /\ NewCall("parent").sys = "wait" =>
                     (pc'["parent"] = "exited" /\ exitCode' # None)
          /\ Issues("child") =>
               /\ NewCall("child").sys \in ChildCalls
               /\ Count("parent", "fork") = 1
               /\ Len(ops'["parent"]) = Len(ops["parent"])
          /\ pc'["child"] # pc["child"] =>
               (pc["child"] = "none" <=> (Issues("parent") /\ NewCall("parent").sys = "fork"))
         ]_vars
    /\ []((pc["child"] # "none" /\ pc["parent"] = "exited") => Count("parent", "wait") = 1)
    /\ [](Cardinality({p \in Procs : pc[p] \notin {"none", "exited"}}) <= 2)

C15_Witness ==
    /\ ops["parent"] = << Call("unshare", ""), Call("fork", ""), Call("wait", "") >>
    /\ pc["parent"] = "exited" /\ failed["parent"] = None
    /\ execd # None /\ Len(ops["child"]) = 20

\* C16: a supervisor that has exited after the fork did so when the child had
\* terminated, after exactly one wait, and that wait returned the child's
\* status.
C16_SupervisorLifetime ==
    (pc["parent"] = "exited" /\ pc["child"] # "none") =>
        /\ pc["child"] = "exited"
        /\ Count("parent", "wait") = 1
        /\ failed["parent"] = None

UnshareFailed == failed["parent"] = Some(Call("unshare", ""))

\* C17: the program's processes have none of the new namespaces or all four of
\* them (mount, PID, IPC, UTS): all four exactly when its one unshare request
\* has succeeded; when the request fails, the program has ended with none of
\* them, without a fork and without a mount.
C17_NamespaceAtomicity ==
    /\ ns \in {{}, {"CLONE_NEWNS", "CLONE_NEWPID", "CLONE_NEWIPC", "CLONE_NEWUTS"}}
    /\ ns # {} <=> (ops["parent"] # <<>> /\ ~UnshareFailed)
    /\ ops["parent"] # <<>> => ops["parent"][1] = Call("unshare", "")
    /\ Len(ops["parent"]) >= 2 => ops["parent"][2].sys # "unshare"
    /\ UnshareFailed =>
          /\ pc = [p \in Procs |-> IF p = "parent" THEN "exited" ELSE "none"]
          /\ exitCode = Some(101)
          /\ ops = [p \in Procs |-> IF p = "parent" THEN << Call("unshare", "") >> ELSE <<>>]
          /\ NoFsMutation

C17_Witness ==
    /\ UnshareFailed /\ ns = {} /\ guard = "passed"
    /\ pc["parent"] = "exited" /\ exitCode = Some(101)

\* the entry of the device or symlink table the child's next creation is for
NextEntry == IF pc["child"] = "make_chardev" THEN DevTable[idx] ELSE LinkTable[idx]

\* C18: each of the seven mknod and four symlink calls names a path directly
\* under <target>/dev and is issued when the tmpfs is mounted there, so what
\* the tool creates lies on that tmpfs and never on the target's own
\* filesystem; the kernel refuses none of these calls, with readonly set or
\* unset, and the population runs to its eleventh entry.
C18_WriteConfinement ==
    /\ [][(Issues("child") /\ Component(NewCall("child")) = 5) =>
            LET e == NextEntry
                m == Covering(nsMounts, root \o e.path)
            IN  /\ Len(e.path) = 3 /\ SubSeq(e.path, 1, 2) = <<"T", "dev">>
                /\ NewCall("child").arg = e.path[3]
                /\ m.fs = "tmpfs" /\ m.mp = <<"T", "dev">>
                /\ "MS_RDONLY" \notin m.flags
                /\ KCreate(e.node, e.path, nsMounts, files, umask, root).ok
                /\ Succeeds("child") =>
                      /\ Len(files') = Len(files) + 1
                      /\ SubSeq(files', 1, Len(files)) = files
                      /\ files'[Len(files')].fs = "tmpfs"
                      /\ files'[Len(files')].path = <<e.path[3]>>
         ]_vars
    /\ [][(files' # files /\ execd = None) => Succeeds("child")]_vars
    /\ [](execd = None => \A i \in 1..Len(files) : files[i].fs # "rootfs")
    /\ [](Len(DevTable) = 7 /\ Len(LinkTable) = 4)

C18_Witness ==
    /\ matches # None /\ matches[1].readonly
    /\ pc["child"] = "chdir" /\ Len(files) = 11
    /\ \A i \in 1..Len(files) : files[i].fs = "tmpfs"
    /\ \A m \in BindAt(nsMounts) : "MS_RDONLY" \in m.flags

\* C19: the argv of the exec is the single element /bin/sh when the caller
\* gave no command and otherwise the caller's words, unchanged and in their
\* order; it is never empty, and the program exec'd is its first element.
C19_CommandSelection ==
    execd # None =>
        /\ execd[1].argv = IF cmdline.ARG = <<>> THEN <<"/bin/sh">> ELSE cmdline.ARG
        /\ execd[1].argv # <<>>
        /\ execd[1].path = execd[1].argv[1]

C19_Witness ==
    /\ execd # None /\ cmdline.ARG = <<"-l", "/bin/ls">>
    /\ execd[1].argv = <<"-l", "/bin/ls">> /\ execd[1].path = "-l"

\* C20 as stated: when a step of the child has failed, the top-level process
\* does not exit with 0; it exits with 0 only when the command was exec'd and
\* exited with 0.
C20_Original ==
    /\ (failed["child"] # None /\ exitCode # None) => exitCode # Some(0)
    /\ exitCode = Some(0) => (execd # None /\ status = Exited(0))

\* C20 as amended: when a step of the child has failed, the top-level process
\* exits with the panic status 101; it exits with 0 only when the command was
\* exec'd and exited with 0, or when the arguments asked for help or version
\* and the parser exited before any privileged call.
C20_NoFalseSuccess ==
    /\ (failed["child"] # None /\ exitCode # None) => exitCode = Some(101)
    /\ exitCode = Some(0) =>
          \/ execd # None /\ status = Exited(0) /\ failed["child"] = None
          \/ cmdline.help /\ guard = "pending" /\ NoPrivilegedOps

C20_Witness ==
    /\ failed["child"] = Some(Call("mount", "bind_mount"))
    /\ failed["parent"] = None /\ status = Exited(101)
    /\ pc["parent"] = "exited" /\ exitCode = Some(101)

====
